---- MODULE Spec2Model ----
(***************************************************************************)
(* Model of the inlyne interpreter core:                                   *)
(*   - interpreter/hir.rs : the tree builder (Hir), a TokenSink fed by the *)
(*     html5ever tokenizer;                                                *)
(*   - interpreter/ast.rs : the tree interpreter (Ast::interpret and the   *)
(*     Process implementations).                                           *)
(*                                                                         *)
(* Strings are sequences of one-character strings, so that trimming,       *)
(* "last character" and concatenation are computed and not assumed.        *)
(* Rc<RefCell<HirNode>> pointers are positions in the sequence of all      *)
(* allocated nodes (hir.nodes); the root is position 1 and a Weak parent   *)
(* that cannot be upgraded is 0.  ast.rs reads the same nodes as a slice   *)
(* indexed by child reference (hir.content()), the root first.             *)
(***************************************************************************)
EXTENDS Integers, Sequences, FiniteSets, TLC

VARIABLES
    hir,        \* the Hir sink: [nodes, current, to_close]
    stream,     \* the tokens the tokenizer has handed to the sink so far
    prev,       \* the sink as it was before the last token
    end_result, \* what the last process_end_tag returned: "Ok", "Err", or "None"
    warnings,   \* number of "unclosed html tag" warnings of the last on_end
    ipc,        \* Ast::interpret: "idle" (not called), "running", "done" (returned)
    branches,   \* the parallel closures of interpret, one per item of the root
    anchorizer, \* AstOpts.anchorizer: the slugs the Anchorizer has handed out
    result,     \* the Vec<Element> interpret returned
    earlier,    \* << the Vec<Element> of an earlier interpret of the same tree >>
    composer,   \* one accumulator box driven call by call (text composer)
    transpile   \* Hir::transpile_md: its position, its input, the trees it sent

(***************************************************************************)
(* Bounds                                                                  *)
(***************************************************************************)
MaxEvents == 4

(***************************************************************************)
(* Tag vocabulary (crate::interpreter::html, used by hir.rs and ast.rs)    *)
(***************************************************************************)
Err == "Err"

\* TagName::try_from(&tag.name): the recognized names, Err for any other.
TagName_try_from(name) ==
    CASE name = "p"  -> "Paragraph"
      [] name = "b"  -> "BoldOrStrong"
      [] name = "i"  -> "EmphasisOrItalic"
      [] name = "br" -> "Break"
      [] name = "h1" -> "Header1"
      [] name = "hr" -> "HorizontalRuler"
      [] name = "img" -> "Image"
      [] name = "a" -> "Anchor"
      [] name = "div" -> "Div"
      [] name = "blockquote" -> "BlockQuote"
      [] name = "code" -> "Code"
      [] name = "h2" -> "Header2"
      [] name = "input" -> "Input"
      [] name = "pre" -> "PreformattedText"
      [] name = "small" -> "Small"
      [] name = "del" -> "Strikethrough"
      [] name = "u" -> "Underline"
      [] name = "details" -> "Details"
      [] name = "summary" -> "Summary"
      [] name = "section" -> "Section"
      [] name = "picture" -> "Picture"
      [] name = "source" -> "Source"
      [] name = "li" -> "ListItem"
      [] name = "ol" -> "OrderedList"
      [] name = "ul" -> "UnorderedList"
      [] name = "table" -> "Table"
      [] name = "thead" -> "TableHead"
      [] name = "tbody" -> "TableBody"
      [] name = "tr" -> "TableRow"
      [] name = "th" -> "TableHeader"
      [] name = "td" -> "TableDataCell"
      [] OTHER -> Err

\* The tag kinds that are intrinsically void (never have an end tag).
is_void(tag_name) ==
    tag_name \in {"Break", "HorizontalRuler", "Image", "Input", "Source"}

(***************************************************************************)
(* TextOrHirNode                                                           *)
(***************************************************************************)
Text(string) == [t |-> "Text", s |-> string, n |-> 0]
Hir(node)    == [t |-> "Hir", s |-> <<>>, n |-> node]

NL == <<"\n">>

(***************************************************************************)
(* Tokens (html5ever::tokenizer::Token)                                    *)
(***************************************************************************)
StartTag(name, self_closing) ==
    [kind |-> "StartTag", name |-> name, self_closing |-> self_closing,
     attrs |-> <<>>, str |-> <<>>]
StartTagA(name, attrs) ==
    [kind |-> "StartTag", name |-> name, self_closing |-> FALSE,
     attrs |-> attrs, str |-> <<>>]
EndTag(name) ==
    [kind |-> "EndTag", name |-> name, self_closing |-> FALSE,
     attrs |-> <<>>, str |-> <<>>]
CharacterTokens(str) ==
    [kind |-> "CharacterTokens", name |-> "", self_closing |-> FALSE,
     attrs |-> <<>>, str |-> str]
EOFToken ==
    [kind |-> "EOFToken", name |-> "", self_closing |-> FALSE,
     attrs |-> <<>>, str |-> <<>>]
\* ParseError, DoctypeToken, CommentToken, NullCharacterToken
OtherToken ==
    [kind |-> "Other", name |-> "", self_closing |-> FALSE,
     attrs |-> <<>>, str |-> <<>>]

(***************************************************************************)
(* Hir (hir.rs)                                                            *)
(***************************************************************************)
HirNode(parent, tag, attributes) ==
    [parent |-> parent, tag |-> tag, attributes |-> attributes, content |-> <<>>]

\* Hir::new
Hir_new ==
    [nodes    |-> << HirNode(0, "Root", <<>>) >>,
     current  |-> 1,
     to_close |-> << "Root" >>]

\* self.current.borrow_mut().content.push(item)
push_content(h, item) ==
    [h EXCEPT !.nodes[h.current].content = Append(@, item)]

\* process_start_tag with the child reference computed one past the new node.
process_start_tag_ref_off_by_one(h, tag) ==
    LET tag_name == TagName_try_from(tag.name) IN
    IF tag_name = Err THEN h
    ELSE
        LET node == Len(h.nodes) + 1
            h1 == [h EXCEPT !.nodes =
                      Append(@, HirNode(h.current, tag_name, tag.attrs))]
            h2 == push_content(h1, Hir(node + 1))
        IN  IF tag.self_closing THEN h2
            ELSE [h2 EXCEPT !.current = node,
                            !.to_close = Append(@, tag_name)]

\* Hir::process_start_tag
process_start_tag(h, tag) ==
    LET tag_name == TagName_try_from(tag.name) IN
    IF tag_name = Err THEN h
    ELSE
        LET node == Len(h.nodes) + 1
            h1 == [h EXCEPT !.nodes =
                      Append(@, HirNode(h.current, tag_name, tag.attrs))]
            h2 == push_content(h1, Hir(node))
        IN  IF tag.self_closing THEN h2
            ELSE [h2 EXCEPT !.current = node,
                            !.to_close = Append(@, tag_name)]

\* process_end_tag that pops the closing stack before it resolves the name.
process_end_tag_pops_first(h, tag) ==
    LET tag_name == TagName_try_from(tag.name) IN
    IF h.to_close = <<>> THEN [hir |-> h, res |-> "Err"]
    ELSE
        LET to_close == h.to_close[Len(h.to_close)]
            h1 == [h EXCEPT !.to_close = SubSeq(@, 1, Len(@) - 1)]
            parent == h.nodes[h.current].parent
        IN  IF tag_name = Err THEN [hir |-> h1, res |-> "Err"]
            ELSE IF tag_name # to_close THEN [hir |-> h1, res |-> "Err"]
            ELSE IF parent = 0 THEN [hir |-> h1, res |-> "Err"]
            ELSE [hir |-> [h1 EXCEPT !.current = parent], res |-> "Ok"]

\* Hir::process_end_tag: the sink after the call and the Result returned.
process_end_tag(h, tag) ==
    LET tag_name == TagName_try_from(tag.name) IN
    IF tag_name = Err THEN [hir |-> h, res |-> "Err"]
    ELSE IF h.to_close = <<>> THEN [hir |-> h, res |-> "Err"]
    ELSE
        LET to_close == h.to_close[Len(h.to_close)]
            h1 == [h EXCEPT !.to_close = SubSeq(@, 1, Len(@) - 1)]
            parent == h.nodes[h.current].parent
        IN  IF tag_name # to_close THEN [hir |-> h1, res |-> "Err"]
            ELSE IF parent = 0 THEN [hir |-> h1, res |-> "Err"]
            ELSE [hir |-> [h1 EXCEPT !.current = parent], res |-> "Ok"]

\* Hir::process_text
process_text(h, string) == push_content(h, Text(string))

\* Hir::on_end: the number of warnings it logs.
on_end(h) == Len(h.to_close)

(***************************************************************************)
(* The tokenizer's input: the tokens the builder specification feeds.      *)
(***************************************************************************)
StartTokens ==
    { StartTag("p", FALSE), StartTag("p", TRUE), StartTag("b", FALSE),
      StartTag("br", FALSE), StartTag("br", TRUE), StartTag("x", FALSE) }
EndTokens == { EndTag(n) : n \in {"p", "b", "br", "x"} }
TextTokens == { CharacterTokens(NL), CharacterTokens(<<"a">>) }

\* TokenSink::process_token as a function of the sink: the sink after the token.
process_token(h, token) ==
    CASE token.kind = "StartTag" -> process_start_tag(h, token)
      [] token.kind = "EndTag" -> process_end_tag(h, token).hir
      [] token.kind = "CharacterTokens" -> process_text(h, token.str)
      [] OTHER -> h

Front(s) == SubSeq(s, 1, Len(s) - 1)
Last(s) == s[Len(s)]

\* Tokenizer::feed over a whole token sequence, starting from Hir::new.
RECURSIVE Build(_)
Build(tokens) ==
    IF tokens = <<>> THEN Hir_new
    ELSE process_token(Build(Front(tokens)), Last(tokens))

\* TokenSink::process_token, one action per arm of the match.
Step(token, h, res, warn) ==
    /\ Len(stream) < MaxEvents
    /\ stream' = Append(stream, token)
    /\ prev' = hir
    /\ hir' = h
    /\ end_result' = res
    /\ warnings' = warn
    /\ UNCHANGED <<ipc, branches, anchorizer, result, earlier, composer, transpile>>

OnStartTag ==
    \E token \in StartTokens :
        Step(token, process_start_tag(hir, token), "None", warnings)

OnEndTag ==
    \E token \in EndTokens :
        LET r == process_end_tag(hir, token) IN
        Step(token, r.hir, r.res, warnings)

OnCharacterTokens ==
    \E token \in TextTokens :
        Step(token, process_text(hir, token.str), "None", warnings)

OnEOFToken == Step(EOFToken, hir, "None", on_end(hir))

OnOtherToken == Step(OtherToken, hir, "None", warnings)

Init ==
    /\ hir = Hir_new
    /\ stream = <<>>
    /\ prev = Hir_new
    /\ end_result = "None"
    /\ warnings = 0
    /\ ipc = "idle"
    /\ branches = <<>>
    /\ anchorizer = {}
    /\ result = <<>>
    /\ earlier = <<>>
    /\ composer = <<>>
    /\ transpile = <<>>

Next ==
    \/ OnStartTag
    \/ OnEndTag
    \/ OnCharacterTokens
    \/ OnEOFToken
    \/ OnOtherToken

vars == <<hir, stream, prev, end_result, warnings,
          ipc, branches, anchorizer, result, earlier, composer, transpile>>

Spec == Init /\ [][Next]_vars

(***************************************************************************)
(* Properties of the tree builder                                          *)
(***************************************************************************)
HasLast == stream # <<>>
LastToken == Last(stream)
LastKind == IF HasLast THEN LastToken.kind ELSE "None"
LastTag == IF HasLast THEN TagName_try_from(LastToken.name) ELSE Err
PrevCurrent == prev.nodes[prev.current]
PrevTop == prev.to_close[Len(prev.to_close)]

\* C1: open(tag) of a recognized tag creates one node and appends it as the
\* last content item of the current node; the new node becomes current and
\* its tag is pushed on the closing stack iff the token is not self-closing
\* and the tag kind is not void; otherwise current and the closing stack
\* stay as they were.
C1_OpenPushesUnlessSelfClosingOrVoid ==
    (LastKind = "StartTag" /\ LastTag # Err) =>
        /\ Len(hir.nodes) = Len(prev.nodes) + 1
        /\ hir.nodes[prev.current].content =
               Append(PrevCurrent.content, Hir(Len(hir.nodes)))
        /\ IF ~LastToken.self_closing /\ ~is_void(LastTag)
           THEN /\ hir.current = Len(hir.nodes)
                /\ hir.to_close = Append(prev.to_close, LastTag)
           ELSE /\ hir.current = prev.current
                /\ hir.to_close = prev.to_close

\* C2: close(tag) of a recognized tag that differs from the popped tag pops
\* the closing stack by one entry, moves the current node to its parent and
\* changes no node's content.
C2_MismatchPopsBothStacks ==
    (/\ LastKind = "EndTag" /\ LastTag # Err
     /\ prev.to_close # <<>> /\ PrevTop # LastTag
     /\ PrevCurrent.parent # 0) =>
        /\ hir.to_close = Front(prev.to_close)
        /\ hir.current = PrevCurrent.parent
        /\ hir.nodes = prev.nodes

\* C3: close(tag) of a void tag kind changes nothing in the builder.
C3_CloseVoidIsNoOp ==
    (LastKind = "EndTag" /\ LastTag # Err /\ is_void(LastTag)) => hir = prev

\* The stream without the tokens of unknown tags.
RECURSIVE StripUnknown(_)
StripUnknown(tokens) ==
    IF tokens = <<>> THEN <<>>
    ELSE LET t == Last(tokens)
             rest == StripUnknown(Front(tokens))
         IN  IF t.kind \in {"StartTag", "EndTag"} /\ TagName_try_from(t.name) = Err
             THEN rest
             ELSE Append(rest, t)

\* C4: an unknown tag never changes the builder: the tree, the current node
\* and the closing stack after a stream equal those after the same stream
\* with every open and close of an unknown tag removed, and the token of an
\* unknown tag itself leaves the builder as it was.
C4_UnknownTagChangesNothing ==
    /\ hir = Build(StripUnknown(stream))
    /\ (LastKind \in {"StartTag", "EndTag"} /\ LastTag = Err) => hir = prev

\* C4 witness: open(unknown), a recognized open, close(unknown): the node
\* opened in between is a child of the root and is the current node.
C4_Witness ==
    /\ Len(stream) = 3
    /\ stream[1] = StartTag("x", FALSE)
    /\ stream[2] = StartTag("p", FALSE)
    /\ stream[3] = EndTag("x")
    /\ hir.current = 2
    /\ hir.to_close = <<"Root", "Paragraph">>

\* C5: text(s) appends s as a text item to the current node, except that a
\* text equal to one newline is dropped when the current node has no content
\* yet.
C5_TextAppendedUnlessLeadingNewline ==
    LastKind = "CharacterTokens" =>
        IF LastToken.str = NL /\ PrevCurrent.content = <<>>
        THEN hir = prev
        ELSE hir = push_content(prev, Text(LastToken.str))

\* A stream is well nested when every end tag closes the innermost open
\* non-void tag; it is well formed when, in addition, nothing is left open.
\* Open(tokens) is the stack of open tags, or <<Err>> once nesting is broken.
RECURSIVE Open(_)
Open(tokens) ==
    IF tokens = <<>> THEN <<>>
    ELSE LET t == Last(tokens)
             o == Open(Front(tokens))
             k == TagName_try_from(t.name)
         IN  IF o = <<Err>> THEN o
             ELSE IF t.kind = "StartTag"
                  THEN IF k = Err THEN <<Err>>
                       ELSE IF t.self_closing \/ is_void(k) THEN o
                       ELSE Append(o, k)
             ELSE IF t.kind = "EndTag"
                  THEN IF o # <<>> /\ k = Last(o) THEN Front(o) ELSE <<Err>>
             ELSE o

WellNested(tokens) == Open(tokens) # <<Err>>
WellFormed(tokens) == Open(tokens) = <<>>

\* C6: a well-formed stream causes no StructuralMismatch and end() emits no
\* unclosed-tag warning; in general end() emits one warning per
\* closing-stack entry other than Root.
C6_WellFormedHasNoErrors ==
    /\ WellNested(stream) => end_result # "Err"
    /\ LastKind = "EOFToken" =>
          /\ warnings = Cardinality({i \in DOMAIN hir.to_close :
                                        hir.to_close[i] # "Root"})
          /\ WellFormed(stream) => warnings = 0

\* C7: whenever a close succeeds and the current node moves to its parent,
\* the tag popped from the closing stack is the tag of the node that was
\* current.
C7_ClosedNodeHasPoppedTag ==
    (LastKind = "EndTag" /\ end_result = "Ok") =>
        /\ hir.current = PrevCurrent.parent
        /\ PrevTop = PrevCurrent.tag

\* C8: every child reference in any node's content designates an existing
\* node, created after the node holding it and before the reference was
\* appended; nodes and content are only ever appended.
IsPrefix(s, t) == Len(s) <= Len(t) /\ SubSeq(t, 1, Len(s)) = s

C8_ChildRefsValid ==
    /\ \A i \in DOMAIN hir.nodes :
         \A k \in DOMAIN hir.nodes[i].content :
            LET item == hir.nodes[i].content[k] IN
            item.t = "Hir" =>
               /\ item.n \in DOMAIN hir.nodes
               /\ item.n > i
               /\ hir.nodes[item.n].parent = i
    /\ Len(prev.nodes) <= Len(hir.nodes)
    /\ \A i \in DOMAIN prev.nodes :
          /\ hir.nodes[i].tag = prev.nodes[i].tag
          /\ IsPrefix(prev.nodes[i].content, hir.nodes[i].content)

\* C8 witness: a node two levels below the root is referenced by its parent.
C8_Witness ==
    /\ Len(hir.nodes) >= 3
    /\ \E i \in DOMAIN hir.nodes :
          /\ hir.nodes[i].parent > 1
          /\ \E k \in DOMAIN hir.nodes[hir.nodes[i].parent].content :
                hir.nodes[hir.nodes[i].parent].content[k] = Hir(i)

(***************************************************************************)
(* The interpreter (ast.rs).  Left out, because nothing observes them      *)
(* before rendering: font sizes, background colours, hidpi scale.          *)
(* global_indent counts multiples of DEFAULT_MARGIN / 2.                   *)
(***************************************************************************)
None == "None"

Attr(k, v) == [k |-> k, v |-> v]

\* TextOptions::default, InheritedState::with_span_color(code_color)
InheritedState_with_span_color ==
    [global_indent |-> 0,
     underline |-> FALSE, bold |-> FALSE, italic |-> FALSE,
     strike_through |-> FALSE, small |-> FALSE, code |-> FALSE,
     pre_formatted |-> FALSE, block_quote |-> 0,
     align |-> None, link |-> None,
     span |-> [color |-> "code_color", weight |-> "Normal",
               style |-> "Normal", decor |-> "None"]]

\* attributes.iter().find_map(f): the first value of an attribute of kind k.
RECURSIVE find_map(_, _)
find_map(attributes, k) ==
    IF attributes = <<>> THEN None
    ELSE IF Head(attributes).k = k THEN Head(attributes).v
    ELSE find_map(Tail(attributes), k)

has_attr(attributes, k) == \E i \in DOMAIN attributes : attributes[i].k = k

\* InheritedState::set_align
set_align(state, align) ==
    [state EXCEPT !.align = IF align # None THEN align ELSE @]

\* InheritedState::set_align_from_attributes
set_align_from_attributes(state, attributes) ==
    set_align(state, find_map(attributes, "Align"))

\* TextBox::new(vec![], scale)
TextBox_new ==
    [texts |-> <<>>, indent |-> 0, align |-> "Left", anchor |-> None,
     is_checkbox |-> <<>>, is_code_block |-> FALSE, quote_block |-> 0]

\* TextBox::set_checkbox
set_checkbox(tb, is_checkbox) == [tb EXCEPT !.is_checkbox = is_checkbox]

\* TextBox::set_align_or_default
set_align_or_default(tb, align) ==
    [tb EXCEPT !.align = IF align # None THEN align ELSE "Left"]

\* Text::new(string, scale, color)
Text_new(string, color) ==
    [text |-> string, color |-> color, bold |-> FALSE, italic |-> FALSE,
     underlined |-> FALSE, striked |-> FALSE, monospace |-> FALSE,
     link |-> None]

\* Element::TextBox, Element::Spacer
TextBoxElement(tb) ==
    [e |-> "TextBox", box |-> tb, visible |-> FALSE, rows |-> <<>>]
Spacer_invisible ==
    [e |-> "Spacer", box |-> TextBox_new, visible |-> FALSE, rows |-> <<>>]
Spacer_visible ==
    [e |-> "Spacer", box |-> TextBox_new, visible |-> TRUE, rows |-> <<>>]
\* Element::Table: rows of cell boxes
TableElement(rows) ==
    [e |-> "Table", box |-> TextBox_new, visible |-> FALSE, rows |-> rows]

\* char::is_whitespace, on the characters used here
is_whitespace(c) == c \in {" ", "\n", "\t"}

\* str::trim().is_empty()
trim_is_empty(string) == \A i \in DOMAIN string : is_whitespace(string[i])

\* str::trim_start
RECURSIVE trim_start(_)
trim_start(string) ==
    IF string # <<>> /\ is_whitespace(Head(string))
    THEN trim_start(Tail(string))
    ELSE string

\* A single space pushed after every fragment, whatever it ends in.
push_space_always(text_box) ==
    IF text_box.texts = <<>> THEN text_box
    ELSE [text_box EXCEPT !.texts = Append(@, Text_new(<<" ">>, "text_color"))]

\* The "single space if the box's last fragment ends in a non-whitespace
\* character" rule of Process::text (lines 170-180 and 191-201).
push_space_if_needed(text_box) ==
    IF text_box.texts = <<>> THEN text_box
    ELSE LET last_text == text_box.texts[Len(text_box.texts)].text IN
         IF last_text = <<>> THEN text_box
         ELSE IF ~is_whitespace(last_text[Len(last_text)])
              THEN [text_box EXCEPT !.texts =
                       Append(@, Text_new(<<" ">>, "text_color"))]
              ELSE text_box

\* The styled fragment with the code span applied after the link.
styled_text_code_after_link(string, state) ==
    LET t0 == Text_new(string, "text_color")
        t1 == IF state.link # None
              THEN [t0 EXCEPT !.link = state.link, !.color = "link_color"]
              ELSE t0
        t2 == IF state.code
              THEN [t1 EXCEPT !.color = state.span.color, !.monospace = TRUE]
              ELSE t1
    IN  [t2 EXCEPT !.bold = @ \/ state.bold,
                   !.italic = @ \/ state.italic,
                   !.underlined = @ \/ state.underline,
                   !.striked = @ \/ state.strike_through]

\* The styled fragment of the third branch of Process::text (lines 213-255).
styled_text(string, state) ==
    LET t0 == Text_new(string, "text_color")
        t1 == IF state.code
              THEN [t0 EXCEPT !.color = state.span.color,
                              !.monospace = TRUE,
                              !.bold = (state.span.weight = "Bold"),
                              !.italic = (state.span.style = "Italic"),
                              !.underlined = (state.span.decor = "Underline")]
              ELSE t0
        t2 == IF state.link # None
              THEN [t1 EXCEPT !.link = state.link, !.color = "link_color"]
              ELSE t1
    IN  [t2 EXCEPT !.bold = @ \/ state.bold,
                   !.italic = @ \/ state.italic,
                   !.underlined = @ \/ state.underline,
                   !.striked = @ \/ state.strike_through]

\* Process::text with every text treated as not preformatted.
text_never_pre_formatted(text_box, string, state) ==
    IF trim_is_empty(string)
    THEN push_space_if_needed(text_box)
    ELSE [text_box EXCEPT !.texts =
             Append(@, styled_text(IF text_box.texts = <<>>
                                   THEN trim_start(string) ELSE string,
                                   state))]

\* Process::text: the text box after composing `string` under `state`.  The
\* state is the callee's own clone, so taking the link changes no caller.
text(text_box, string, state) ==
    IF string = NL
    THEN push_space_if_needed(
             IF state.pre_formatted
             THEN [text_box EXCEPT !.texts =
                      Append(@, Text_new(NL, "text_color"))]
             ELSE text_box)
    ELSE IF trim_is_empty(string) /\ ~state.pre_formatted
    THEN push_space_if_needed(text_box)
    ELSE
        LET str == IF text_box.texts = <<>> /\ ~state.pre_formatted
                   THEN trim_start(string) ELSE string
            tb1 == IF state.block_quote >= 1
                   THEN [text_box EXCEPT !.quote_block = state.block_quote]
                   ELSE text_box
        IN  [tb1 EXCEPT !.texts = Append(@, styled_text(str, state))]

\* A flush that emits the old accumulator whatever it holds.
push_text_box_always(output, text_box, state) ==
    [out |-> Append(output, TextBoxElement(
                 [text_box EXCEPT !.indent = state.global_indent])),
     tb |-> [TextBox_new EXCEPT !.indent = state.global_indent]]

\* Process::push_text_box: the output and the accumulator after the call.
push_text_box(output, text_box, state) ==
    LET fresh == [TextBox_new EXCEPT !.indent = state.global_indent]
        content == \E i \in DOMAIN text_box.texts :
                       text_box.texts[i].text # <<>>
    IN  IF text_box.texts # <<>>
        THEN [out |-> IF content
                      THEN Append(output, TextBoxElement(
                               [text_box EXCEPT !.indent = state.global_indent]))
                      ELSE output,
              tb |-> fresh]
        ELSE [out |-> output,
              tb |-> [fresh EXCEPT !.is_checkbox = text_box.is_checkbox]]

(***************************************************************************)
(* The recursive walk, as a stack of pending calls per parallel closure.   *)
(* A frame is a call that has not run yet; it carries its own clone of the *)
(* inherited state, as every call in ast.rs is given state.clone().        *)
(***************************************************************************)
Frame(op, node, str, state) ==
    [op |-> op, node |-> node, str |-> str, state |-> state, list_prefix |-> <<>>]

F_process(node, state) == Frame("process", node, <<>>, state)
F_text(string, state) == Frame("text", 0, string, state)
F_push_text_box(state) == Frame("push_text_box", 0, <<>>, state)
F_push_spacer == Frame("push_spacer", 0, <<>>, InheritedState_with_span_color)
F_header_anchor == Frame("header_anchor", 0, <<>>, InheritedState_with_span_color)
\* ListItemProcess::process; list_prefix is <<num>> for Some(num), <<>> for None
F_list_item(node, list_prefix, state) ==
    [Frame("list_item", node, <<>>, state) EXCEPT !.list_prefix = list_prefix]

\* process_content with bold staying set for the siblings after a child node.
process_content_bold_leaks(content, state) ==
    [i \in DOMAIN content |->
        LET st == IF \E j \in 1..(i - 1) : content[j].t = "Hir"
                  THEN [state EXCEPT !.bold = TRUE] ELSE state
        IN  IF content[i].t = "Text"
            THEN F_text(content[i].s, st)
            ELSE F_process(content[i].n, st)]

\* FlowProcess::process_content: one call per content item, in order.
process_content(content, state) ==
    [i \in DOMAIN content |->
        IF content[i].t = "Text"
        THEN F_text(content[i].s, state)
        ELSE F_process(content[i].n, state)]

\* A closure of interpret: pending calls, its own `out` and its own `tb`.
Branch(stack, out, tb) == [stack |-> stack, out |-> out, tb |-> tb]

\* The Anchor arm's loop over the attributes (lines 328-336).
RECURSIVE anchor_attributes(_, _)
anchor_attributes(acc, attributes) ==
    IF attributes = <<>> THEN acc
    ELSE LET attr == Head(attributes)
             acc1 == IF attr.k = "Href"
                     THEN [acc EXCEPT !.state.link = attr.v]
                     ELSE IF attr.k = "Anchor"
                     THEN [acc EXCEPT !.tb.anchor = attr.v]
                     ELSE acc
         IN  anchor_attributes(acc1, Tail(attributes))

\* format!("{num}"): the decimal digits of num.
DigitChar(d) == <<"0", "1", "2", "3", "4", "5", "6", "7", "8", "9">>[d + 1]

RECURSIVE format_num(_)
format_num(num) ==
    IF num < 10 THEN <<DigitChar(num)>>
    ELSE Append(format_num(num \div 10), DigitChar(num % 10))

\* The prefix of ListItemProcess::process (lines 691-694).
format_prefix(list_prefix) ==
    IF list_prefix # <<>>
    THEN format_num(list_prefix[1]) \o <<".", " ">>
    ELSE <<"·", " ">>

\* OrderedListProcess::process, lines 593-598: 1, or the last Start attribute.
RECURSIVE start_index(_, _)
start_index(index, attributes) ==
    IF attributes = <<>> THEN index
    ELSE start_index(IF Head(attributes).k = "Start" THEN Head(attributes).v
                     ELSE index,
                     Tail(attributes))

\* The children loop of OrderedListProcess::process with the index running
\* over every child node, list item or not.
RECURSIVE ordered_items_counting_every_node(_, _, _, _)
ordered_items_counting_every_node(nodes, content, index, state) ==
    IF content = <<>> THEN <<>>
    ELSE LET ton == Head(content) IN
         IF ton.t = "Hir" /\ nodes[ton.n].tag = "ListItem"
         THEN <<F_list_item(ton.n, <<index>>, state)>>
              \o ordered_items_counting_every_node(nodes, Tail(content), index + 1, state)
         ELSE IF ton.t = "Hir"
         THEN ordered_items_counting_every_node(nodes, Tail(content), index + 1, state)
         ELSE ordered_items_counting_every_node(nodes, Tail(content), index, state)

\* The children loop of OrderedListProcess::process (lines 602-620): text is
\* skipped, a list item is given Some(index) and the index goes up by one,
\* any other node is logged.
RECURSIVE ordered_items(_, _, _, _)
ordered_items(nodes, content, index, state) ==
    IF content = <<>> THEN <<>>
    ELSE LET ton == Head(content) IN
         IF ton.t = "Hir" /\ nodes[ton.n].tag = "ListItem"
         THEN <<F_list_item(ton.n, <<index>>, state)>>
              \o ordered_items(nodes, Tail(content), index + 1, state)
         ELSE ordered_items(nodes, Tail(content), index, state)

\* The children loop of UnorderedListProcess::process (lines 640-657).
RECURSIVE unordered_items(_, _, _)
unordered_items(nodes, content, state) ==
    IF content = <<>> THEN <<>>
    ELSE LET ton == Head(content) IN
         IF ton.t = "Hir" /\ nodes[ton.n].tag = "ListItem"
         THEN <<F_list_item(ton.n, <<>>, state)>>
              \o unordered_items(nodes, Tail(content), state)
         ELSE unordered_items(nodes, Tail(content), state)

\* ListItemProcess::process, lines 677-688
first_child_is_checkbox(nodes, node) ==
    LET content == nodes[node].content IN
    /\ content # <<>>
    /\ Head(content).t = "Hir"
    /\ nodes[Head(content).n].tag = "Input"
    /\ has_attr(nodes[Head(content).n].attributes, "IsCheckbox")

\* ListItemProcess::process with the prefix pushed for every item.
ListItemProcess_always_prefix(nodes, b, f) ==
    [stack |-> process_content(nodes[f.node].content, f.state)
                  \o <<F_push_text_box(f.state)>> \o b.stack,
     out |-> b.out,
     tb |-> [b.tb EXCEPT !.texts =
                Append(@, [Text_new(format_prefix(f.list_prefix), "text_color")
                              EXCEPT !.bold = TRUE])]]

\* ListItemProcess::process, up to its first nested call.
ListItemProcess_process(nodes, b, f) ==
    [stack |-> process_content(nodes[f.node].content, f.state)
                  \o <<F_push_text_box(f.state)>> \o b.stack,
     out |-> b.out,
     tb |-> IF ~first_child_is_checkbox(nodes, f.node)
            THEN [b.tb EXCEPT !.texts =
                     Append(@, [Text_new(format_prefix(f.list_prefix), "text_color")
                                   EXCEPT !.bold = TRUE])]
            ELSE b.tb]

\* TableCellProcess::process: the boxes pushed to the row, one for every text
\* item of the cell; a child node is logged and skipped.
RECURSIVE TableCellProcess_process(_, _, _)
TableCellProcess_process(content, header, state) ==
    IF content = <<>> THEN <<>>
    ELSE LET st == IF header THEN [state EXCEPT !.bold = TRUE] ELSE state
             rest == TableCellProcess_process(Tail(content), header, state)
         IN  IF Head(content).t = "Text"
             THEN <<text(set_align_or_default(TextBox_new, st.align),
                         Head(content).s, st)>> \o rest
             ELSE rest

\* TableRowProcess::process: the cells of one row.
RECURSIVE TableRowProcess_process(_, _, _)
TableRowProcess_process(nodes, content, state) ==
    IF content = <<>> THEN <<>>
    ELSE LET ton == Head(content)
             rest == TableRowProcess_process(nodes, Tail(content), state)
         IN  IF ton.t = "Hir" /\ nodes[ton.n].tag \in {"TableHeader", "TableDataCell"}
             THEN TableCellProcess_process(
                      nodes[ton.n].content,
                      nodes[ton.n].tag = "TableHeader",
                      set_align_from_attributes(state, nodes[ton.n].attributes))
                  \o rest
             ELSE rest

\* TableHeadProcess::process: the rows a head or body grouping adds.
RECURSIVE TableHeadProcess_process(_, _, _)
TableHeadProcess_process(nodes, content, state) ==
    IF content = <<>> THEN <<>>
    ELSE LET ton == Head(content)
             rest == TableHeadProcess_process(nodes, Tail(content), state)
         IN  IF ton.t = "Hir" /\ nodes[ton.n].tag = "TableRow"
             THEN <<TableRowProcess_process(nodes, nodes[ton.n].content, state)>>
                  \o rest
             ELSE rest

\* The children loop of TableProcess::process (lines 722-738): table.rows.
RECURSIVE table_rows(_, _, _)
table_rows(nodes, content, state) ==
    IF content = <<>> THEN <<>>
    ELSE LET ton == Head(content)
             rest == table_rows(nodes, Tail(content), state)
         IN  IF ton.t = "Hir" /\ nodes[ton.n].tag \in {"TableHead", "TableBody"}
             THEN TableHeadProcess_process(nodes, nodes[ton.n].content, state)
                  \o rest
             ELSE IF ton.t = "Hir" /\ nodes[ton.n].tag = "TableRow"
             THEN <<TableRowProcess_process(nodes, nodes[ton.n].content, state)>>
                  \o rest
             ELSE rest

\* TableProcess::process: what it appends to the output.
TableProcess_process(nodes, output, node, state) ==
    output \o << TableElement(table_rows(nodes, nodes[node].content, state)),
                 Spacer_invisible >>

\* FlowProcess::process with every tag recursing into its content.
FlowProcess_process_visits_every_tag(nodes, b, node, state) ==
    Branch(process_content(nodes[node].content, state) \o b.stack, b.out, b.tb)

\* FlowProcess::process for `node`, up to its first nested call: what it
\* does to `out` and `tb` at once, and the calls it still has to make.
FlowProcess_process(nodes, b, node, state) ==
    LET attributes == nodes[node].attributes
        content == nodes[node].content
        tag == nodes[node].tag
        flushed == push_text_box(b.out, b.tb, state)
        aligned == set_align_from_attributes(state, attributes)
        inline(st) == Branch(process_content(content, st) \o b.stack, b.out, b.tb)
    IN
    CASE tag = "Paragraph" ->
            Branch(process_content(content, aligned)
                     \o <<F_push_text_box(aligned), F_push_spacer>> \o b.stack,
                   flushed.out,
                   set_align_or_default(flushed.tb, aligned.align))
      [] tag = "Anchor" ->
            LET r == anchor_attributes([state |-> state, tb |-> b.tb], attributes)
            IN  Branch(process_content(content, r.state) \o b.stack, b.out, r.tb)
      [] tag = "Div" ->
            Branch(process_content(content, aligned)
                     \o <<F_push_text_box(aligned)>> \o b.stack,
                   flushed.out,
                   set_align_or_default(flushed.tb, aligned.align))
      [] tag = "BlockQuote" ->
            LET st == [state EXCEPT !.block_quote = @ + 1,
                                    !.global_indent = @ + 1]
            IN  Branch(process_content(content, st)
                         \o <<F_push_text_box(st)>>
                         \o (IF st.global_indent = 1 THEN <<F_push_spacer>> ELSE <<>>)
                         \o b.stack,
                       flushed.out, flushed.tb)
      [] tag = "BoldOrStrong" -> inline([state EXCEPT !.bold = TRUE])
      [] tag = "Break" ->
            Branch(process_content(content, state) \o b.stack,
                   flushed.out, flushed.tb)
      [] tag = "Code" -> inline([state EXCEPT !.code = TRUE])
      [] tag = "EmphasisOrItalic" -> inline([state EXCEPT !.italic = TRUE])
      [] tag \in {"Header1", "Header2"} ->
            LET st == [aligned EXCEPT !.bold = TRUE,
                                      !.underline = @ \/ (tag = "Header1")]
            IN  Branch(process_content(content, st)
                         \o <<F_header_anchor, F_push_text_box(st), F_push_spacer>>
                         \o b.stack,
                       Append(flushed.out, Spacer_invisible),
                       set_align_or_default(flushed.tb, aligned.align))
      [] tag = "HorizontalRuler" ->
            Branch(process_content(content, state) \o b.stack,
                   Append(b.out, Spacer_visible), b.tb)
      [] tag = "Input" ->
            Branch(process_content(content, state) \o b.stack,
                   b.out,
                   IF has_attr(attributes, "IsCheckbox")
                   THEN set_checkbox(b.tb, <<has_attr(attributes, "IsChecked")>>)
                   ELSE b.tb)
      [] tag = "PreformattedText" ->
            LET st == [state EXCEPT !.pre_formatted = TRUE]
            IN  Branch(process_content(content, st)
                         \o <<F_push_text_box(st), F_push_spacer>> \o b.stack,
                       flushed.out,
                       [flushed.tb EXCEPT !.is_code_block = TRUE])
      [] tag = "OrderedList" ->
            LET st == [state EXCEPT !.global_indent = @ + 1]
            IN  Branch(ordered_items(nodes, content,
                                     start_index(1, attributes), st)
                         \o (IF st.global_indent = 1 THEN <<F_push_spacer>> ELSE <<>>)
                         \o b.stack,
                       flushed.out, flushed.tb)
      [] tag = "UnorderedList" ->
            LET st == [state EXCEPT !.global_indent = @ + 1]
            IN  Branch(unordered_items(nodes, content, st)
                         \o (IF st.global_indent = 1 THEN <<F_push_spacer>> ELSE <<>>)
                         \o b.stack,
                       flushed.out, flushed.tb)
      [] tag = "Table" ->
            Branch(b.stack, TableProcess_process(nodes, b.out, node, state), b.tb)
      [] tag = "Small" -> inline([state EXCEPT !.small = TRUE])
      [] tag = "Strikethrough" -> inline([state EXCEPT !.strike_through = TRUE])
      [] tag = "Underline" -> inline([state EXCEPT !.underline = TRUE])
      \* Details, Summary, Section, Picture, Source, Image, ListItem, TableHead,
      \* TableBody, TableRow, TableDataCell, TableHeader: return; Root: logged.
      [] OTHER -> b

\* One pending call of a closure that does not touch the Anchorizer.
Exec(nodes, b) ==
    LET f == Head(b.stack)
        rest == [b EXCEPT !.stack = Tail(@)]
    IN
    CASE f.op = "process" -> FlowProcess_process(nodes, rest, f.node, f.state)
      [] f.op = "text" -> [rest EXCEPT !.tb = text(@, f.str, f.state)]
      [] f.op = "push_text_box" ->
            LET r == push_text_box(b.out, b.tb, f.state)
            IN  [rest EXCEPT !.out = r.out, !.tb = r.tb]
      [] f.op = "push_spacer" -> [rest EXCEPT !.out = Append(@, Spacer_invisible)]
      [] f.op = "list_item" -> ListItemProcess_process(nodes, rest, f)
      [] OTHER -> rest

(***************************************************************************)
(* The Anchorizer (comrak::Anchorizer behind AstOpts.anchorizer)           *)
(***************************************************************************)
\* The slug of a heading text: rejected characters are removed and every
\* space becomes a hyphen (the texts used here are lower case already).
RECURSIVE Slug(_)
Slug(header) ==
    IF header = <<>> THEN <<>>
    ELSE LET c == Head(header) IN
         IF c = " " THEN <<"-">> \o Slug(Tail(header))
         ELSE IF c \in {"\n", "\t", "#"} THEN Slug(Tail(header))
         ELSE <<c>> \o Slug(Tail(header))

Digits(n) == << <<"1">>, <<"2">>, <<"3">>, <<"4">>, <<"5">>,
                <<"6">>, <<"7">>, <<"8">>, <<"9">> >>[n]

\* Anchorizer::anchorize: the first of id, id-1, id-2, ... not handed out yet.
Anchorize(used, header) ==
    LET id == Slug(header)
        Cand(n) == IF n = 0 THEN id ELSE id \o <<"-">> \o Digits(n)
        uniq == CHOOSE n \in 0..Cardinality(used) :
                    /\ Cand(n) \notin used
                    /\ \A m \in 0..(n - 1) : Cand(m) \in used
    IN  [slug |-> Cand(uniq), used |-> used \cup {Cand(uniq)}]

\* A heading that asks a new Anchorizer instead of the shared one.
anchorize_with_new_anchorizer(shared, header) ==
    [slug |-> Anchorize({}, header).slug,
     used |-> shared \cup {Anchorize({}, header).slug}]

\* opts.anchorizer.lock().anchorize(anchor): the one shared Anchorizer.
anchorize_shared(shared, header) == Anchorize(shared, header)

\* context.texts.iter().flat_map(|t| t.text.chars()).collect()
RECURSIVE concat_texts(_)
concat_texts(texts) ==
    IF texts = <<>> THEN <<>>
    ELSE Head(texts).text \o concat_texts(Tail(texts))

(***************************************************************************)
(* Ast::interpret                                                          *)
(***************************************************************************)
\* The closure given to filter_map for one item of the root's content: a
\* text item gives None (nothing to run, nothing collected).
Closure(ton) ==
    IF ton.t = "Hir"
    THEN Branch(<<F_process(ton.n, InheritedState_with_span_color)>>,
                <<>>, TextBox_new)
    ELSE Branch(<<>>, <<>>, TextBox_new)

\* .flatten().collect() in the reverse of document order.
RECURSIVE collect_reversed(_)
collect_reversed(brs) ==
    IF brs = <<>> THEN <<>>
    ELSE Last(brs).out \o collect_reversed(Front(brs))

\* .flatten().collect(): rayon keeps the order of the items.
RECURSIVE collect(_)
collect(brs) ==
    IF brs = <<>> THEN <<>>
    ELSE collect(Front(brs)) \o Last(brs).out

\* interpret is called: root.into_par_iter() hands every item to a closure.
Interpret ==
    /\ ipc = "idle"
    /\ ipc' = "running"
    /\ branches' = [i \in DOMAIN hir.nodes[1].content |->
                       Closure(hir.nodes[1].content[i])]
    /\ UNCHANGED <<hir, stream, prev, end_result, warnings, anchorizer, result,
                   earlier, composer, transpile>>

\* A closure runs its next call (any call but the Anchorizer's).
BranchStep(i) ==
    /\ ipc = "running"
    /\ branches[i].stack # <<>>
    /\ Head(branches[i].stack).op # "header_anchor"
    /\ branches' = [branches EXCEPT ![i] = Exec(hir.nodes, @)]
    /\ UNCHANGED <<hir, stream, prev, end_result, warnings, ipc, anchorizer,
                   result, earlier, composer, transpile>>

\* The Header arm, lines 414-416: under the lock, the slug of the box's text.
BranchAnchorize(i) ==
    /\ ipc = "running"
    /\ branches[i].stack # <<>>
    /\ Head(branches[i].stack).op = "header_anchor"
    /\ LET r == anchorize_shared(anchorizer, concat_texts(branches[i].tb.texts))
       IN  /\ anchorizer' = r.used
           /\ branches' = [branches EXCEPT ![i].stack = Tail(@),
                                           ![i].tb.anchor = <<"#">> \o r.slug]
    /\ UNCHANGED <<hir, stream, prev, end_result, warnings, ipc, result,
                   earlier, composer, transpile>>

\* collect() returns once every closure has returned.
Collect ==
    /\ ipc = "running"
    /\ \A i \in DOMAIN branches : branches[i].stack = <<>>
    /\ result' = collect(branches)
    /\ ipc' = "done"
    /\ UNCHANGED <<hir, stream, prev, end_result, warnings, branches, anchorizer,
                   earlier, composer, transpile>>

\* The same tree is interpreted once more, by a new Ast (Ast::new: a new
\* Anchorizer, the same theme and scale); the first output is kept aside.
InterpretAgain ==
    /\ ipc = "done"
    /\ earlier = <<>>
    /\ earlier' = <<result>>
    /\ ipc' = "idle"
    /\ branches' = <<>>
    /\ anchorizer' = {}
    /\ result' = <<>>
    /\ UNCHANGED <<hir, stream, prev, end_result, warnings, composer, transpile>>

(***************************************************************************)
(* The documents interpreted: token streams, built by the builder above.   *)
(***************************************************************************)
T(chars) == CharacterTokens(chars)
O(name) == StartTag(name, FALSE)
SC(name) == StartTag(name, TRUE)
E(name) == EndTag(name)
OA(name, attrs) == StartTagA(name, attrs)
SCA(name, attrs) == [StartTagA(name, attrs) EXCEPT !.self_closing = TRUE]

\* <input type="checkbox" disabled="" [checked=""] />
Checkbox(checked) ==
    SCA("input", <<Attr("IsCheckbox", TRUE)>>
                 \o (IF checked THEN <<Attr("IsChecked", TRUE)>> ELSE <<>>))

\* <b><i>text</b></i>
MismatchedEndTagDoc ==
    << O("b"), O("i"), T(<<"t", "e", "x", "t">>), E("b"), E("i") >>

\* <table><tr><td>a</td><td>b</td></tr><tr><td>c</td><td>d</td></tr></table>
TableExampleDoc ==
    << O("table"), O("tr"), O("td"), T(<<"a">>), E("td"),
       O("td"), T(<<"b">>), E("td"), E("tr"),
       O("tr"), O("td"), T(<<"c">>), E("td"),
       O("td"), T(<<"d">>), E("td"), E("tr"), E("table") >>

\* <ol start="9"><li>a</li>x<p>c</p><li>b</li></ol>
OrderedListDoc ==
    << OA("ol", <<Attr("Start", 9)>>), O("li"), T(<<"a">>), E("li"),
       T(<<"x">>), O("p"), T(<<"c">>), E("p"),
       O("li"), T(<<"b">>), E("li"), E("ol") >>

\* <ul><li><input type="checkbox" checked/></li><li>a</li></ul>
CheckboxOnlyItemDoc ==
    << O("ul"), O("li"), Checkbox(TRUE), E("li"),
       O("li"), T(<<"a">>), E("li"), E("ul") >>

\* <div>a<hr/>b</div>
RulerDoc ==
    << O("div"), T(<<"a">>), SC("hr"), T(<<"b">>), E("div") >>

\* <p><a href="url">a<i>b</i></a>c</p>
LinkDoc ==
    << O("p"), OA("a", <<Attr("Href", "url")>>), T(<<"a">>),
       O("i"), T(<<"b">>), E("i"), E("a"), T(<<"c">>), E("p") >>

\* <div align="center"><b>a<i>b</i>c</b>d<blockquote>e</blockquote>f</div>
CascadeDoc ==
    << OA("div", <<Attr("Align", "Center")>>),
       O("b"), T(<<"a">>), O("i"), T(<<"b">>), E("i"), T(<<"c">>), E("b"),
       T(<<"d">>), O("blockquote"), T(<<"e">>), E("blockquote"),
       T(<<"f">>), E("div") >>

\* <div>a<details>b</details><li>c</li><img/><tr><td>d</td></tr>e</div>
SkippedDoc ==
    << O("div"), T(<<"a">>), O("details"), T(<<"b">>), E("details"),
       O("li"), T(<<"c">>), E("li"), SC("img"),
       O("tr"), O("td"), T(<<"d">>), E("td"), E("tr"),
       T(<<"e">>), E("div") >>

Docs ==
    { \* <h1>a</h1><h1>a</h1>
      << O("h1"), T(<<"a">>), E("h1"), O("h1"), T(<<"a">>), E("h1") >>,
      \* <h1>a</h1><h1>a</h1><h1>a-1</h1>
      << O("h1"), T(<<"a">>), E("h1"), O("h1"), T(<<"a">>), E("h1"),
         O("h1"), T(<<"a", "-", "1">>), E("h1") >>,
      \* <div><h1>a</h1><h2>a</h2></div>b<h2>a</h2>
      << O("div"), O("h1"), T(<<"a">>), E("h1"), O("h2"), T(<<"a">>), E("h2"),
         E("div"), T(<<"b">>), O("h2"), T(<<"a">>), E("h2") >>,
      \* <p>a b</p>\n<hr/><p>c</p>
      << O("p"), T(<<"a", " ", "b">>), E("p"), T(NL), SC("hr"),
         O("p"), T(<<"c">>), E("p") >>,
      \* <h1>a<br/>b</h1><h2>b</h2><h2> </h2>
      << O("h1"), T(<<"a">>), SC("br"), T(<<"b">>), E("h1"),
         O("h2"), T(<<"b">>), E("h2"), O("h2"), T(<<" ">>), E("h2") >>,
      \* <blockquote><p>a</p></blockquote><pre><code>a\n</code></pre>
      << O("blockquote"), O("p"), T(<<"a">>), E("p"), E("blockquote"),
         O("pre"), O("code"), T(<<"a">>), T(NL), E("code"), E("pre") >>,
      MismatchedEndTagDoc,
      CheckboxOnlyItemDoc,
      RulerDoc,
      LinkDoc,
      CascadeDoc,
      SkippedDoc,
      OrderedListDoc,
      \* <ul><li>a</li><li><input checked/>b</li><li><input/>c</li></ul>
      << O("ul"), O("li"), T(<<"a">>), E("li"),
         O("li"), Checkbox(TRUE), T(<<"b">>), E("li"),
         O("li"), Checkbox(FALSE), T(<<"c">>), E("li"), E("ul") >>,
      \* <ol><li><input checked/>a</li><li>b</li><li><ul><li>c</li></ul></li></ol>
      << O("ol"), O("li"), Checkbox(TRUE), T(<<"a">>), E("li"),
         O("li"), T(<<"b">>), E("li"),
         O("li"), O("ul"), O("li"), T(<<"c">>), E("li"), E("ul"), E("li"),
         E("ol") >>,
      TableExampleDoc,
      \* <table><thead><tr><th align="center">a</th><th>b</th></tr></thead>
      \* <tbody><tr><td></td><td>c</td></tr></tbody></table>
      << O("table"), O("thead"), O("tr"),
         OA("th", <<Attr("Align", "Center")>>), T(<<"a">>), E("th"),
         O("th"), T(<<"b">>), E("th"), E("tr"), E("thead"),
         O("tbody"), O("tr"), O("td"), E("td"),
         O("td"), T(<<"c">>), E("td"), E("tr"), E("tbody"), E("table") >> }

InitInterpret ==
    /\ \E doc \in Docs :
          /\ stream = doc
          /\ hir = Build(doc)
          /\ prev = Build(Front(doc))
    /\ end_result = "None"
    /\ warnings = 0
    /\ ipc = "idle"
    /\ branches = <<>>
    /\ anchorizer = {}
    /\ result = <<>>
    /\ earlier = <<>>
    /\ composer = <<>>
    /\ transpile = <<>>

NextInterpret ==
    \/ Interpret
    \/ \E i \in DOMAIN branches : BranchStep(i)
    \/ \E i \in DOMAIN branches : BranchAnchorize(i)
    \/ Collect
    \/ InterpretAgain

SpecInterpret == InitInterpret /\ [][NextInterpret]_vars

(***************************************************************************)
(* Properties of interpret                                                 *)
(***************************************************************************)
\* Number of elements the closures before closure i have put out.
RECURSIVE Offset(_)
Offset(i) == IF i <= 1 THEN 0 ELSE Offset(i - 1) + Len(branches[i - 1].out)

\* C9: in every interleaving of the closures, interpret returns only after
\* every closure has completed, and what it returns is each top-level
\* child's own output, one after the other in document order.
C9_ResultInDocumentOrder ==
    ipc = "done" =>
        /\ \A i \in DOMAIN branches : branches[i].stack = <<>>
        /\ Len(result) = Offset(Len(branches) + 1)
        /\ \A i \in DOMAIN branches :
              \A k \in DOMAIN branches[i].out :
                 result[Offset(i) + k] = branches[i].out[k]

IsAnchored(el) == el.e = "TextBox" /\ el.box.anchor # None

\* C9 witness: interpret has returned the output of two headings whose
\* closures reached the Anchorizer in the reverse of document order.
C9_Witness ==
    /\ ipc = "done"
    /\ Len(branches) = 2
    /\ Len(result) = 6
    /\ result[2].box.anchor = <<"#", "a", "-", "1">>
    /\ result[5].box.anchor = <<"#", "a">>

C11_InterpretIsDeterministic ==
    (ipc = "done" /\ earlier # <<>>) => result = earlier[1]

(***************************************************************************)
(* The text composer on its own: Process::text, Process::push_text_box and *)
(* the Input arm's set_checkbox applied to one accumulator and one output, *)
(* under an inherited state drawn at the start.  composer remembers the    *)
(* call made last and what the accumulator and the output were before it.  *)
(***************************************************************************)
MaxCalls == 4

\* the inherited states a text run is composed under
ComposerStates ==
    { [InheritedState_with_span_color EXCEPT
          !.pre_formatted = pre, !.code = code, !.link = link] :
        pre \in BOOLEAN, code \in BOOLEAN, link \in {None, "url"} }

\* the strings of the text items; Process::text takes any &str
ComposerStrings == { <<"a">>, <<" ", "a", " ">>, <<" ">>, NL, <<>> }

\* a text item composed into the accumulator: the string and the number of
\* fragments of the accumulator after the call
Composed(string, after) == [string |-> string, after |-> after]

InitText ==
    /\ hir = Hir_new
    /\ stream = <<>>
    /\ prev = Hir_new
    /\ end_result = "None"
    /\ warnings = 0
    /\ ipc = "idle"
    /\ branches = <<>>
    /\ anchorizer = {}
    /\ result = <<>>
    /\ earlier = <<>>
    /\ transpile = <<>>
    /\ \E state \in ComposerStates :
          composer = [tb |-> TextBox_new, out |-> <<>>, state |-> state,
                      items |-> <<>>, calls |-> 0, op |-> "new",
                      str |-> <<>>, prev_tb |-> TextBox_new, prev_out |-> <<>>]

ComposerCall(op, str, tb, out, items) ==
    /\ composer.calls < MaxCalls
    /\ composer' = [composer EXCEPT !.tb = tb, !.out = out, !.items = items,
                                    !.calls = @ + 1, !.op = op, !.str = str,
                                    !.prev_tb = composer.tb,
                                    !.prev_out = composer.out]
    /\ UNCHANGED <<hir, stream, prev, end_result, warnings,
                   ipc, branches, anchorizer, result, earlier, transpile>>

\* Self::text(context, string, opts, state.clone())
ComposeText ==
    \E string \in ComposerStrings :
        LET tb == text(composer.tb, string, composer.state)
        IN  ComposerCall("text", string, tb, composer.out,
                         Append(composer.items, Composed(string, Len(tb.texts))))

\* Self::push_text_box(output, context, opts, &state), the caller's indent
\* being 0 or one half margin
FlushTextBox ==
    \E indent \in {0, 1} :
        LET r == push_text_box(composer.out, composer.tb,
                               [composer.state EXCEPT !.global_indent = indent])
        IN  ComposerCall("push_text_box", <<>>, r.tb, r.out, <<>>)

\* context.set_checkbox(Some(is_checked)) of the Input arm
SetCheckbox ==
    \E is_checked \in BOOLEAN :
        ComposerCall("set_checkbox", <<>>,
                     set_checkbox(composer.tb, <<is_checked>>),
                     composer.out, composer.items)

NextText ==
    \/ ComposeText
    \/ FlushTextBox
    \/ SetCheckbox

SpecText == InitText /\ [][NextText]_vars

\* C12: building and interpreting <b><i>text</b></i> gives an output that
\* holds a text box with a fragment "text" that is at least bold.
C12_MismatchedEndTagStillEmitsBoldText ==
    (stream = MismatchedEndTagDoc /\ ipc = "done") =>
        \E i \in DOMAIN result :
            /\ result[i].e = "TextBox"
            /\ \E j \in DOMAIN result[i].box.texts :
                  /\ result[i].box.texts[j].text = <<"t", "e", "x", "t">>
                  /\ result[i].box.texts[j].bold

\* The fragments of the text boxes of an output sequence, in order.
RECURSIVE AllTexts(_)
AllTexts(elements) ==
    IF elements = <<>> THEN <<>>
    ELSE (IF Head(elements).e = "TextBox" THEN Head(elements).box.texts
          ELSE <<>>) \o AllTexts(Tail(elements))

\* A bullet or a number prefix: "· " or "<digits>. "
IsPrefixText(string) ==
    \/ string = <<"·", " ">>
    \/ /\ Len(string) >= 3
       /\ string[Len(string) - 1] = "."
       /\ string[Len(string)] = " "

IsPrefixFragment(fragment) == IsPrefixText(fragment.text)

PrefixTexts(elements) ==
    LET found == SelectSeq(AllTexts(elements), IsPrefixFragment)
    IN  [i \in DOMAIN found |-> found[i].text]

IsListItemAt(nodes, node, p) ==
    LET ton == nodes[node].content[p] IN
    /\ nodes[node].tag \in {"OrderedList", "UnorderedList"}
    /\ ton.t = "Hir"
    /\ nodes[ton.n].tag = "ListItem"

HasCheckboxFirst(nodes, node) ==
    LET content == nodes[node].content IN
    /\ content # <<>>
    /\ content[1].t = "Hir"
    /\ nodes[content[1].n].tag = "Input"
    /\ \E a \in DOMAIN nodes[content[1].n].attributes :
          nodes[content[1].n].attributes[a].k = "IsCheckbox"

\* The prefix the p-th child of a list is to get: the list's start value plus
\* the number of list items before it, or the bullet.
PrefixOfItemAt(nodes, node, p) ==
    LET attributes == nodes[node].attributes
        s == IF \E a \in DOMAIN attributes : attributes[a].k = "Start"
             THEN attributes[CHOOSE a \in DOMAIN attributes :
                                 attributes[a].k = "Start"].v
             ELSE 1
        k == Cardinality({q \in 1..p : IsListItemAt(nodes, node, q)})
    IN  IF nodes[node].tag = "OrderedList"
        THEN format_num(s + k - 1) \o <<".", " ">>
        ELSE <<"·", " ">>

\* The prefixes of the list items below `node` from its p-th child on, in
\* document order; an item with a checkbox first has none.
RECURSIVE PrefixesFrom(_, _, _)
PrefixesFrom(nodes, node, p) ==
    LET content == nodes[node].content IN
    IF p > Len(content) THEN <<>>
    ELSE (IF IsListItemAt(nodes, node, p)
             /\ ~HasCheckboxFirst(nodes, content[p].n)
          THEN <<PrefixOfItemAt(nodes, node, p)>> ELSE <<>>)
         \o (IF content[p].t = "Hir"
             THEN PrefixesFrom(nodes, content[p].n, 1) ELSE <<>>)
         \o PrefixesFrom(nodes, node, p + 1)

BoxesWith(string) ==
    { i \in DOMAIN result :
         /\ result[i].e = "TextBox"
         /\ \E j \in DOMAIN result[i].box.texts :
               result[i].box.texts[j].text = string }

CheckboxItems ==
    { n \in DOMAIN hir.nodes :
         /\ hir.nodes[n].tag = "ListItem"
         /\ HasCheckboxFirst(hir.nodes, n)
         /\ Len(hir.nodes[n].content) >= 2
         /\ hir.nodes[n].content[2].t = "Text" }

\* C14: the box emitted for a list item whose first child is a checkbox input
\* has no bullet and no number prefix, and its checkbox flag is the input's
\* checked attribute.
C14_CheckboxSuppressesPrefix ==
    ipc = "done" =>
        \A n \in CheckboxItems :
            LET input == hir.nodes[hir.nodes[n].content[1].n]
                checked == \E a \in DOMAIN input.attributes :
                               input.attributes[a].k = "IsChecked"
                boxes == BoxesWith(hir.nodes[n].content[2].s)
            IN  /\ boxes # {}
                /\ \A i \in boxes :
                      /\ \A j \in DOMAIN result[i].box.texts :
                            ~IsPrefixText(result[i].box.texts[j].text)
                      /\ result[i].box.is_checkbox = <<checked>>

C14_Witness ==
    /\ ipc = "done"
    /\ Cardinality(CheckboxItems) = 2
    /\ \E i, j \in DOMAIN result :
          /\ result[i].e = "TextBox" /\ result[i].box.is_checkbox = <<TRUE>>
          /\ result[j].e = "TextBox" /\ result[j].box.is_checkbox = <<FALSE>>

\* The row nodes of a table: its row children and those of its head and body.
RECURSIVE RowNodes(_, _)
RowNodes(nodes, content) ==
    IF content = <<>> THEN <<>>
    ELSE LET ton == Head(content) IN
         (IF ton.t = "Hir" /\ nodes[ton.n].tag = "TableRow" THEN <<ton.n>>
          ELSE IF ton.t = "Hir" /\ nodes[ton.n].tag \in {"TableHead", "TableBody"}
          THEN RowNodes(nodes, nodes[ton.n].content)
          ELSE <<>>) \o RowNodes(nodes, Tail(content))

\* How many header and data cells each row of the table node has.
TableShape(nodes, node) ==
    LET rows == RowNodes(nodes, nodes[node].content) IN
    [r \in DOMAIN rows |->
        Cardinality({p \in DOMAIN nodes[rows[r]].content :
            /\ nodes[rows[r]].content[p].t = "Hir"
            /\ nodes[nodes[rows[r]].content[p].n].tag
                   \in {"TableHeader", "TableDataCell"}})]

IsTableElement(element) == element.e = "Table"

TopLevelTables ==
    LET IsTable(ton) == ton.t = "Hir" /\ hir.nodes[ton.n].tag = "Table"
    IN  SelectSeq(hir.nodes[1].content, IsTable)

\* C15: every table gives one Table element, with one row per row tag and in
\* every row one cell box per header or data cell, an empty cell included; the
\* two-by-two example has the cell texts a, b, c, d in row-major order.
C15_TableShape ==
    ipc = "done" =>
        LET tables == SelectSeq(result, IsTableElement) IN
        /\ Len(tables) = Len(TopLevelTables)
        /\ \A t \in DOMAIN tables :
              [r \in DOMAIN tables[t].rows |-> Len(tables[t].rows[r])]
                  = TableShape(hir.nodes, TopLevelTables[t].n)
        /\ stream = TableExampleDoc =>
              [r \in 1..2 |-> [c \in 1..2 |-> tables[1].rows[r][c].texts[1].text]]
                  = << << <<"a">>, <<"b">> >>, << <<"c">>, <<"d">> >> >>

\* C16: a table is bracketed by spacers: in the output a spacer comes
\* immediately before the Table element and a spacer immediately after it.
C16_TableBracketedBySpacers ==
    ipc = "done" =>
        \A i \in DOMAIN result :
            result[i].e = "Table" =>
                /\ i > 1 /\ result[i - 1].e = "Spacer"
                /\ i < Len(result) /\ result[i + 1].e = "Spacer"

EndsInWhitespace(string) ==
    string # <<>> /\ is_whitespace(string[Len(string)])

SpaceFragment == Text_new(<<" ">>, "text_color")

\* Items i and j of the accumulator are two non-whitespace texts with nothing
\* but whitespace-only items, and at least one, between them.
WhitespaceRunBetween(i, j) ==
    /\ i + 1 < j
    /\ ~trim_is_empty(composer.items[i].string)
    /\ ~trim_is_empty(composer.items[j].string)
    /\ \A m \in (i + 1)..(j - 1) : trim_is_empty(composer.items[m].string)

\* The fragments of the accumulator between those of items i and j.
FragmentsBetween(i, j) ==
    SubSeq(composer.tb.texts, composer.items[i].after + 1,
           composer.items[j].after - 1)

\* A whitespace-only text composed after a fragment that ends in whitespace
\* adds nothing.
WhitespaceAfterWhitespaceAddsNothing ==
    (/\ composer.op = "text"
     /\ trim_is_empty(composer.str)
     /\ composer.prev_tb.texts # <<>>
     /\ EndsInWhitespace(Last(composer.prev_tb.texts).text))
        => composer.tb = composer.prev_tb

\* C17 as stated: when not preformatted, a run of whitespace-only text items
\* between two non-whitespace text items of a box leaves exactly one
\* single-space fragment between the two text fragments, and a whitespace-only
\* text after a fragment that ends in whitespace adds nothing.
C17_ExactlyOneSpaceBetweenTexts ==
    ~composer.state.pre_formatted =>
        /\ \A i, j \in DOMAIN composer.items :
              WhitespaceRunBetween(i, j) =>
                  FragmentsBetween(i, j) = <<SpaceFragment>>
        /\ WhitespaceAfterWhitespaceAddsNothing

\* C17, amended: the run leaves exactly one single-space fragment between the
\* two text fragments when the first of them ends in a non-whitespace
\* character and no fragment when it ends in whitespace already; a
\* whitespace-only text after a fragment that ends in whitespace adds nothing.
C17_OneSpaceUnlessTextEndsInWhitespace ==
    ~composer.state.pre_formatted =>
        /\ \A i, j \in DOMAIN composer.items :
              WhitespaceRunBetween(i, j) =>
                  FragmentsBetween(i, j) =
                      IF EndsInWhitespace(
                             composer.tb.texts[composer.items[i].after].text)
                      THEN <<>> ELSE <<SpaceFragment>>
        /\ WhitespaceAfterWhitespaceAddsNothing

C17_Witness ==
    /\ ~composer.state.pre_formatted
    /\ Len(composer.items) = 4
    /\ WhitespaceRunBetween(1, 4)
    /\ FragmentsBetween(1, 4) = <<SpaceFragment>>
    /\ composer.items[2].string = <<" ">>
    /\ composer.items[3].string = NL

\* C18: in a preformatted block a text item equal to a newline adds exactly
\* one newline fragment and no space fragment, and a text that becomes the
\* first fragment of the box keeps its leading whitespace.
C18_PreformattedFidelity ==
    (composer.state.pre_formatted /\ composer.op = "text") =>
        /\ composer.str = NL =>
              /\ Len(composer.tb.texts) = Len(composer.prev_tb.texts) + 1
              /\ Front(composer.tb.texts) = composer.prev_tb.texts
              /\ Last(composer.tb.texts).text = NL
        /\ (composer.str # NL /\ composer.prev_tb.texts = <<>>) =>
              /\ Len(composer.tb.texts) = 1
              /\ composer.tb.texts[1].text = composer.str

C18_Witness ==
    /\ composer.state.pre_formatted
    /\ composer.op = "text"
    /\ composer.str = NL
    /\ Len(composer.tb.texts) = 2
    /\ composer.tb.texts[1].text = <<" ", "a", " ">>
    /\ composer.tb.texts[2].text = NL

\* A text run was composed under code mode and a pending link.
CodeRunUnderLink ==
    /\ composer.op = "text"
    /\ composer.state.code
    /\ composer.state.link # None
    /\ Len(composer.tb.texts) = Len(composer.prev_tb.texts) + 1
    /\ ~trim_is_empty(composer.str)

\* C19: a text run composed under code mode with a pending link gives a
\* fragment in the theme's link colour, not the code span colour, that carries
\* the link target.
C19_LinkColorOverridesCodeColor ==
    CodeRunUnderLink =>
        /\ Last(composer.tb.texts).color = "link_color"
        /\ Last(composer.tb.texts).color # composer.state.span.color
        /\ Last(composer.tb.texts).link = composer.state.link

C19_Witness ==
    /\ CodeRunUnderLink
    /\ Last(composer.tb.texts).monospace
    /\ Last(composer.tb.texts).link = "url"

\* The accumulator holds at least one fragment with non-empty text.
HasContent(tb) == \E i \in DOMAIN tb.texts : tb.texts[i].text # <<>>

\* No text box of the output is without a fragment of non-empty text.
NoEmptyTextBoxInOutput ==
    \A i \in DOMAIN composer.out :
        composer.out[i].e = "TextBox" => HasContent(composer.out[i].box)

\* C20 as stated: after push_text_box the accumulator is a fresh empty box with
\* the current global indent; the output has grown by the old accumulator if
\* it held a fragment with non-empty text and is unchanged otherwise; no text
\* box of the output is without a fragment of non-empty text.
C20_FlushLeavesFreshBox ==
    /\ composer.op = "push_text_box" =>
          /\ \E indent \in {0, 1} :
                composer.tb = [TextBox_new EXCEPT !.indent = indent]
          /\ IF HasContent(composer.prev_tb)
             THEN composer.out =
                      Append(composer.prev_out, TextBoxElement(composer.prev_tb))
             ELSE composer.out = composer.prev_out
    /\ NoEmptyTextBoxInOutput

\* C20, amended: after push_text_box the accumulator has no fragments and the
\* current global indent, and is a fresh box but for the checkbox flag, which
\* is the old accumulator's when that held no fragment; the output has grown
\* by the old accumulator, its indent set to the current global indent, if it
\* held a fragment with non-empty text and is unchanged otherwise; no text
\* box of the output is without a fragment of non-empty text.
C20_FlushKeepsCheckboxOfEmptyBox ==
    /\ composer.op = "push_text_box" =>
          \E indent \in {0, 1} :
             /\ composer.tb =
                   [TextBox_new EXCEPT
                       !.indent = indent,
                       !.is_checkbox = IF composer.prev_tb.texts = <<>>
                                       THEN composer.prev_tb.is_checkbox
                                       ELSE <<>>]
             /\ IF HasContent(composer.prev_tb)
                THEN composer.out =
                         Append(composer.prev_out,
                                TextBoxElement([composer.prev_tb EXCEPT
                                                   !.indent = indent]))
                ELSE composer.out = composer.prev_out
    /\ NoEmptyTextBoxInOutput

C20_Witness ==
    /\ composer.op = "push_text_box"
    /\ composer.tb.is_checkbox # <<>>
    /\ composer.prev_tb.texts = <<>>
    /\ Len(composer.out) = 1
    /\ composer.out[1].box.indent = 1

(***************************************************************************)
(* Hir::transpile_md: the builder thread takes one message after another,  *)
(* feeds its tokens to the one sink `hir`, ends the tokenizer and sends    *)
(* tok.sink.clone().  Hir derives Clone: the clone copies to_close and the *)
(* two Rc handles, so a sent tree is read through the nodes of the sink.   *)
(* The consumer thread reads a tree it received while the builder runs.    *)
(***************************************************************************)
MaxMessages == 2

\* the token streams of the messages (markdown_to_html, then the tokenizer)
Messages ==
    { << O("p"), T(<<"a">>), E("p") >>,
      << O("b"), T(<<"a">>) >>,
      << T(<<"a">>) >> }

\* Hir::clone (derived): content and current are Rc::clone, to_close is a new
\* Vec; `seen` keeps the nodes as they were when the tree was sent.
Hir_clone(h) ==
    [content |-> 1, current |-> h.current, to_close |-> h.to_close,
     seen |-> h.nodes]

InitTranspile ==
    /\ hir = Hir_new
    /\ stream = <<>>
    /\ prev = Hir_new
    /\ end_result = "None"
    /\ warnings = 0
    /\ ipc = "idle"
    /\ branches = <<>>
    /\ anchorizer = {}
    /\ result = <<>>
    /\ earlier = <<>>
    /\ composer = <<>>
    /\ transpile = [pc |-> "recv", input |-> <<>>, received |-> 0,
                    sent |-> <<>>, read |-> <<>>]

\* for md_string in receiver { ...; input.push_back(html)
Receive ==
    /\ transpile.pc = "recv"
    /\ transpile.received < MaxMessages
    /\ \E tokens \in Messages :
          transpile' = [transpile EXCEPT !.pc = "feed", !.input = tokens,
                                         !.received = @ + 1]
    /\ UNCHANGED <<hir, stream, prev, end_result, warnings,
                   ipc, branches, anchorizer, result, earlier, composer>>

\* tok.feed(&mut input): one token handed to the sink
Feed ==
    /\ transpile.pc = "feed"
    /\ hir' = process_token(hir, Head(transpile.input))
    /\ prev' = hir
    /\ stream' = Append(stream, Head(transpile.input))
    /\ transpile' = [transpile EXCEPT
                        !.input = Tail(@),
                        !.pc = IF Tail(transpile.input) = <<>>
                               THEN "end" ELSE "feed"]
    /\ UNCHANGED <<end_result, warnings,
                   ipc, branches, anchorizer, result, earlier, composer>>

\* tok.end(): the sink gets EOFToken
End ==
    /\ transpile.pc = "end"
    /\ warnings' = on_end(hir)
    /\ stream' = Append(stream, EOFToken)
    /\ prev' = hir
    /\ transpile' = [transpile EXCEPT !.pc = "send"]
    /\ UNCHANGED <<hir, end_result,
                   ipc, branches, anchorizer, result, earlier, composer>>

\* sender.send(tok.sink.clone())
Send ==
    /\ transpile.pc = "send"
    /\ transpile' = [transpile EXCEPT !.pc = "recv",
                                      !.sent = Append(@, Hir_clone(hir))]
    /\ UNCHANGED <<hir, stream, prev, end_result, warnings,
                   ipc, branches, anchorizer, result, earlier, composer>>

\* The consumer reads the nodes of a tree it received.  Nothing orders the
\* read with the builder's writes to the same nodes (Hir is Send by an unsafe
\* impl, the nodes are Rc<RefCell<..>>): it may see the nodes as they are or
\* as they were before the builder's last token.
ConsumerRead ==
    /\ \E k \in DOMAIN transpile.sent :
          \E nodes \in {hir.nodes, prev.nodes} :
              transpile' = [transpile EXCEPT !.read = << [tree |-> k, nodes |-> nodes] >>]
    /\ UNCHANGED <<hir, stream, prev, end_result, warnings,
                   ipc, branches, anchorizer, result, earlier, composer>>

NextTranspile ==
    \/ Receive
    \/ Feed
    \/ End
    \/ Send
    \/ ConsumerRead

SpecTranspile == InitTranspile /\ [][NextTranspile]_vars

BlockTags ==
    {"Paragraph", "Div", "BlockQuote", "Header1", "Header2",
     "HorizontalRuler", "PreformattedText"}

\* The text boxes of the output with a fragment `string`.
HoldsText(element, string) ==
    /\ element.e = "TextBox"
    /\ \E m \in DOMAIN element.box.texts : element.box.texts[m].text = string

\* Element `element` of the output is one the block node `node` emits: the
\* visible spacer of a rule, or a box with a text the block holds directly.
EmittedBy(element, node) ==
    \/ /\ hir.nodes[node].tag = "HorizontalRuler"
       /\ element.e = "Spacer"
       /\ element.visible
    \/ \E q \in DOMAIN hir.nodes[node].content :
          /\ hir.nodes[node].content[q].t = "Text"
          /\ ~trim_is_empty(hir.nodes[node].content[q].s)
          /\ HoldsText(element, hir.nodes[node].content[q].s)

\* C21: a block container flushes the text box before it emits anything: a
\* text that comes just before a block tag in the same parent is in the
\* output before every element of the block, a rule's visible spacer included.
C21_BlockFlushesBeforeEmitting ==
    ipc = "done" =>
        \A parent \in DOMAIN hir.nodes \ {1} :
            \A p \in DOMAIN hir.nodes[parent].content :
                LET content == hir.nodes[parent].content IN
                (/\ p > 1
                 /\ content[p].t = "Hir"
                 /\ hir.nodes[content[p].n].tag \in BlockTags
                 /\ content[p - 1].t = "Text"
                 /\ ~trim_is_empty(content[p - 1].s))
                    => \A i, j \in DOMAIN result :
                          (/\ HoldsText(result[i], content[p - 1].s)
                           /\ EmittedBy(result[j], content[p].n))
                              => i < j

\* C22: the pending link of an anchor is consumed by the next text run: the
\* fragment of the anchor's first text has the link target and the link
\* colour, and no later text run has the link.
C22_LinkConsumedByNextTextRun ==
    ipc = "done" =>
        \A n \in DOMAIN hir.nodes :
            (/\ hir.nodes[n].tag = "Anchor"
             /\ has_attr(hir.nodes[n].attributes, "Href")
             /\ hir.nodes[n].content # <<>>
             /\ hir.nodes[n].content[1].t = "Text")
                => \A k \in DOMAIN AllTexts(result) :
                      LET fragment == AllTexts(result)[k] IN
                      IF fragment.text = hir.nodes[n].content[1].s
                      THEN /\ fragment.link = find_map(hir.nodes[n].attributes, "Href")
                           /\ fragment.color = "link_color"
                      ELSE fragment.link = None

\* The nodes from the child of the root down to `node`.
RECURSIVE Chain(_, _)
Chain(nodes, node) ==
    IF node <= 1 THEN <<>>
    ELSE Append(Chain(nodes, nodes[node].parent), node)

\* The deepest node of the chain with one of the tags and the attribute.
Deepest(nodes, chain, tags, k) ==
    LET with == { c \in DOMAIN chain :
                     /\ nodes[chain[c]].tag \in tags
                     /\ has_attr(nodes[chain[c]].attributes, k) }
    IN  IF with = {} THEN None
        ELSE find_map(nodes[chain[CHOOSE c \in with : \A d \in with : d <= c]]
                          .attributes, k)

\* `state` is what the ancestors of a text held by `node` set, and no more.
SetByAncestors(nodes, node, state) ==
    LET chain == Chain(nodes, node)
        Some(tags) == \E c \in DOMAIN chain : nodes[chain[c]].tag \in tags
        Count(tags) == Cardinality({c \in DOMAIN chain : nodes[chain[c]].tag \in tags})
    IN  /\ state.bold = Some({"BoldOrStrong", "Header1", "Header2"})
        /\ state.italic = Some({"EmphasisOrItalic"})
        /\ state.underline = Some({"Underline", "Header1"})
        /\ state.strike_through = Some({"Strikethrough"})
        /\ state.code = Some({"Code"})
        /\ state.pre_formatted = Some({"PreformattedText"})
        /\ state.block_quote = Count({"BlockQuote"})
        /\ state.global_indent =
              Count({"BlockQuote", "OrderedList", "UnorderedList"})
        /\ state.link = Deepest(nodes, chain, {"Anchor"}, "Href")
        /\ state.align =
              Deepest(nodes, chain,
                      {"Paragraph", "Div", "Header1", "Header2"}, "Align")

\* C23: the state a text run is composed with is the one its own ancestors
\* set: nothing of an earlier sibling, or of a sibling's subtree, is in it.
C23_StateSetByAncestorsOnly ==
    \A i \in DOMAIN branches :
        \A k \in DOMAIN branches[i].stack :
            LET f == branches[i].stack[k] IN
            f.op = "text" =>
                \E n \in DOMAIN hir.nodes :
                    /\ \E p \in DOMAIN hir.nodes[n].content :
                          hir.nodes[n].content[p] = Text(f.str)
                    /\ SetByAncestors(hir.nodes, n, f.state)

C23_Witness ==
    /\ stream = CascadeDoc
    /\ ipc = "running"
    /\ branches[1].stack # <<>>
    /\ Head(branches[1].stack).op = "text"
    /\ Head(branches[1].stack).str = <<"d">>
    /\ ~Head(branches[1].stack).state.bold
    /\ Head(branches[1].stack).state.align = "Center"
    /\ Len(branches[1].tb.texts) = 3
    /\ \A m \in 1..3 : branches[1].tb.texts[m].bold

SkippedTags ==
    {"Image", "Picture", "Source", "Details", "Section", "Summary", "ListItem",
     "TableHead", "TableBody", "TableRow", "TableDataCell", "TableHeader"}

\* C24: the flow interpreter's call for an unsupported or misplaced tag
\* changes neither the output nor the accumulator and makes no call for a
\* child; the calls for the following siblings stay pending.
C24_SkippedTagContributesNothing ==
    [][\A i \in DOMAIN branches :
          (/\ i \in DOMAIN branches'
           /\ branches[i].stack # <<>>
           /\ Head(branches[i].stack).op = "process"
           /\ hir.nodes[Head(branches[i].stack).node].tag \in SkippedTags
           /\ branches'[i].stack # branches[i].stack)
              => branches'[i] = [branches[i] EXCEPT !.stack = Tail(@)]]_vars

C24_Witness ==
    /\ stream = SkippedDoc
    /\ ipc = "done"
    /\ \E k \in DOMAIN result :
          /\ result[k].e = "TextBox"
          /\ [m \in DOMAIN result[k].box.texts |-> result[k].box.texts[m].text]
                = << <<"a">>, <<"e">> >>
    /\ \A k \in DOMAIN result :
          ~ \E string \in {<<"b">>, <<"c">>, <<"d">>} : HoldsText(result[k], string)

\* C25: when interpret returns, every fragment with text that was composed
\* into an accumulator of a top-level branch is in a text box of the output.
C25_NoComposedTextIsLost ==
    ipc = "done" =>
        \A i \in DOMAIN branches :
            \A j \in DOMAIN branches[i].tb.texts :
                branches[i].tb.texts[j].text # <<>> =>
                    \E k \in DOMAIN result :
                        /\ result[k].e = "TextBox"
                        /\ \E m \in DOMAIN result[k].box.texts :
                              result[k].box.texts[m] = branches[i].tb.texts[j]

\* C26: no emitted box with a bullet or a number prefix has its checkbox flag
\* set.
C26_CheckboxStaysWithItsItem ==
    ipc = "done" =>
        \A k \in DOMAIN result :
            (/\ result[k].e = "TextBox"
             /\ \E m \in DOMAIN result[k].box.texts :
                   IsPrefixText(result[k].box.texts[m].text))
                => result[k].box.is_checkbox = <<>>

\* C27: the closing stack is never empty and its bottom entry is Root.
C27_RootStaysOnClosingStack ==
    /\ hir.to_close # <<>>
    /\ hir.to_close[1] = "Root"

\* The tree below node `node` of `nodes`, as a value without references.
RECURSIVE Tree(_, _)
Tree(nodes, node) ==
    [tag |-> nodes[node].tag,
     attributes |-> nodes[node].attributes,
     content |-> [p \in DOMAIN nodes[node].content |->
                     IF nodes[node].content[p].t = "Text"
                     THEN [s |-> nodes[node].content[p].s, sub |-> <<>>]
                     ELSE [s |-> <<>>,
                           sub |-> <<Tree(nodes, nodes[node].content[p].n)>>]]]

\* C28: a tree that was sent is a stable snapshot: what is reachable from it,
\* now and in whatever the consumer reads, is what it held when it was sent.
C28_SentTreeIsStableSnapshot ==
    /\ \A k \in DOMAIN transpile.sent :
          Tree(hir.nodes, transpile.sent[k].content)
              = Tree(transpile.sent[k].seen, transpile.sent[k].content)
    /\ \A r \in DOMAIN transpile.read :
          Tree(transpile.read[r].nodes, 1)
              = Tree(transpile.sent[transpile.read[r].tree].seen, 1)

====
